---- MODULE Spec2Model ----
(***************************************************************************)
(* A model of the SSD1306 display driver of gopherbone                     *)
(* (src/ssd1306/ssd1306.go, the int-coordinate revision, lines 1-405).     *)
(*                                                                         *)
(* The state is the SSD1306 struct (width, height, iface, buf), plus the   *)
(* record of the last method call: its name and arguments (call), the      *)
(* framebuffer it started from (prev), what it returned (rc, err), the     *)
(* external actions it performed on the reset pin and the bus, in order    *)
(* (io), and whether the process is still running (status: a Go panic      *)
(* that nothing recovers ends it).  Clear overwrites every byte whatever   *)
(* the buffer held, so its record keeps no earlier buffer: after Clear,    *)
(* prev is the cleared buffer.                                             *)
(***************************************************************************)
EXTENDS Integers, Sequences, FiniteSets, TLC

VARIABLES width, height, iface, buf, prev, call, rc, err, io, status, ndraw

vars == <<width, height, iface, buf, prev, call, rc, err, io, status, ndraw>>

(***************************************************************************)
(* Bounds of the model.                                                    *)
(***************************************************************************)
\* Drawing calls explored on a buffer since it was created or last cleared.
MaxDraws == 1
\* How far outside the pixel grid the coordinates of a call may lie.
Margin == 1

(***************************************************************************)
(* Program constants.                                                      *)
(***************************************************************************)
IFACE_SPI == 0
IFACE_I2C == 1
\* color.White is Gray16{0xffff}, color.Black is Gray16{0}; every method
\* compares its colour with color.White only.
White == 65535
Black == 0
Colors == {Black, White}
DISP_OFF == 174
DISP_ON == 175
\* The length of one chunk of Draw.
ChunkLen == 32

(***************************************************************************)
(* Go's integer and byte arithmetic.                                       *)
(***************************************************************************)
Pow2(n) == 2 ^ n

\* Go's / on int truncates toward zero.
GoDiv(a, b) == IF a >= 0 THEN a \div b ELSE -((-a) \div b)

\* Go's % on int has the sign of the dividend.
GoMod(a, b) == a - b * GoDiv(a, b)

Bit(b, i) == (b \div Pow2(i)) % 2

\* b |= m on a byte.
Or8(b, m) ==
    LET v(i) == IF Bit(b, i) = 1 \/ Bit(m, i) = 1 THEN Pow2(i) ELSE 0
    IN  v(0) + v(1) + v(2) + v(3) + v(4) + v(5) + v(6) + v(7)

\* b &^= m on a byte.
AndNot8(b, m) ==
    LET v(i) == IF Bit(b, i) = 1 /\ Bit(m, i) = 0 THEN Pow2(i) ELSE 0
    IN  v(0) + v(1) + v(2) + v(3) + v(4) + v(5) + v(6) + v(7)

\* byte(b) << uint(n).  n is the int before its conversion: uint(n) of a
\* negative n is at least 2^63, and a shift by 8 or more clears a byte.
Shl8(b, n) == IF n < 0 \/ n >= 8 THEN 0 ELSE (b * Pow2(n)) % 256

\* byte(b) >> uint(n), likewise.
Shr8(b, n) == IF n < 0 \/ n >= 8 THEN 0 ELSE b \div Pow2(n)

\* buf[e] |= m for color.White, buf[e] &^= m for any other colour.
Blend(b, m, c) == IF c = White THEN Or8(b, m) ELSE AndNot8(b, m)

\* len(ssd1306.buf)
BufLen(b) == Cardinality(DOMAIN b)

(***************************************************************************)
(* Clear and Point.                                                        *)
(***************************************************************************)
Clear(b, c) == [i \in DOMAIN b |-> IF c = White THEN 255 ELSE 0]

\* A Point that stores the mask instead of combining it with the byte.
PointStore(b, x, y, c) ==
    IF x >= width \/ y >= height \/ x < 0 \/ y < 0
    THEN b
    ELSE LET element == width * (y \div 8) + x
         IN  [b EXCEPT ![element] =
                 IF c = White THEN Shl8(1, y % 8) ELSE 255 - Shl8(1, y % 8)]

Point(b, x, y, c) ==
    IF x >= width \/ y >= height \/ x < 0 \/ y < 0
    THEN b
    ELSE LET element == width * (y \div 8) + x
         IN  [b EXCEPT ![element] = Blend(@, Shl8(1, y % 8), c)]

\* The writes of a call, applied in order: a write is a pair
\* <<element, mask>> and does buf[element] |= mask (or &^= mask).  An element
\* outside the slice is Go's index-out-of-range panic, which ends the call
\* there with the earlier writes done.  All writes of a call have the same
\* colour, so those that reach a byte leave it as one write of the union of
\* their masks would.
OrAll(ms) ==
    LET v(i) == IF \E m \in ms : Bit(m, i) = 1 THEN Pow2(i) ELSE 0
    IN  v(0) + v(1) + v(2) + v(3) + v(4) + v(5) + v(6) + v(7)

Writes(b, ws, c) ==
    LET bad == {i \in 1 .. Len(ws) : ws[i][1] \notin DOMAIN b}
        n == IF bad = {} THEN Len(ws)
             ELSE (CHOOSE i \in bad : \A j \in bad : i <= j) - 1
        done == {ws[i] : i \in 1 .. n}
        hit == {w[1] : w \in done}
    IN  [buf |-> [e \in DOMAIN b |->
                     IF e \in hit
                     THEN Blend(b[e], OrAll({w[2] : w \in {v \in done : v[1] = e}}), c)
                     ELSE b[e]],
         fault |-> bad # {}]

InGrid(x, y) == 0 <= x /\ x < width /\ 0 <= y /\ y < height

\* Point called on each pixel <<x, y>> of a sequence, in order: the pixels
\* outside the grid are skipped, each of the others is one write of one bit.
Plot(b, pts, c) ==
    LET inside == SelectSeq(pts, LAMBDA p : InGrid(p[1], p[2]))
    IN  Writes(b, [i \in 1 .. Len(inside) |->
                      <<width * (inside[i][2] \div 8) + inside[i][1],
                        Shl8(1, inside[i][2] % 8)>>], c).buf

(***************************************************************************)
(* Line and Circle: the pixels they pass to Point, in order.               *)
(***************************************************************************)
Abs(n) == IF n < 0 THEN -n ELSE n

\* The loop of Line.  dx, dy and err are float64 in the source; they only
\* ever hold sums and differences of the int arguments, which float64
\* represents exactly, so they are integers here.
RECURSIVE LineLoop(_, _, _, _, _, _, _, _, _, _)
LineLoop(pts, x0, y0, x1, y1, dx, dy, sx, sy, e) ==
    LET p1 == Append(pts, <<x0, y0>>)
    IN  IF x0 = x1 /\ y0 = y1 THEN p1
        ELSE LET e2 == 2 * e
                 ex == IF e2 > -dy THEN e - dy ELSE e
                 xa == IF e2 > -dy THEN x0 + sx ELSE x0
             IN  IF xa = x1 /\ y0 = y1 THEN Append(p1, <<xa, y0>>)
                 ELSE LET ey == IF e2 < dx THEN ex + dx ELSE ex
                          ya == IF e2 < dx THEN y0 + sy ELSE y0
                      IN  LineLoop(p1, xa, ya, x1, y1, dx, dy, sx, sy, ey)

\* A Line that stops one pixel short of (x1, y1), unless it is a single pixel.
LinePointsOpenEnd(x0, y0, x1, y1) ==
    LET dx == Abs(x1 - x0)
        dy == Abs(y1 - y0)
        sx == IF x0 < x1 THEN 1 ELSE -1
        sy == IF y0 < y1 THEN 1 ELSE -1
        pts == LineLoop(<<>>, x0, y0, x1, y1, dx, dy, sx, sy, dx - dy)
    IN  IF Len(pts) > 1 THEN SubSeq(pts, 1, Len(pts) - 1) ELSE pts

LinePoints(x0, y0, x1, y1) ==
    LET dx == Abs(x1 - x0)
        dy == Abs(y1 - y0)
        sx == IF x0 < x1 THEN 1 ELSE -1
        sy == IF y0 < y1 THEN 1 ELSE -1
    IN  LineLoop(<<>>, x0, y0, x1, y1, dx, dy, sx, sy, dx - dy)

Line(b, x0, y0, x1, y1, c) == Plot(b, LinePoints(x0, y0, x1, y1), c)

RECURSIVE CircleLoop(_, _, _, _, _, _, _, _)
CircleLoop(pts, x0, y0, f, ddF_x, ddF_y, x, y) ==
    IF ~(x < y) THEN pts
    ELSE LET dec == f >= 0
             y1 == IF dec THEN y - 1 ELSE y
             dy1 == IF dec THEN ddF_y + 2 ELSE ddF_y
             f1 == IF dec THEN f + dy1 ELSE f
             x1 == x + 1
             dx1 == ddF_x + 2
             f2 == f1 + dx1
         IN  CircleLoop(pts \o << <<x0 + x1, y0 + y1>>, <<x0 - x1, y0 + y1>>,
                                  <<x0 + x1, y0 - y1>>, <<x0 - x1, y0 - y1>>,
                                  <<x0 + y1, y0 + x1>>, <<x0 - y1, y0 + x1>>,
                                  <<x0 + y1, y0 - x1>>, <<x0 - y1, y0 - x1>> >>,
                        x0, y0, f2, dx1, dy1, x1, y1)

\* A Circle that leaves out the four pixels plotted before the loop.
CirclePointsLoopOnly(x0, y0, radius) ==
    CircleLoop(<<>>, x0, y0, 1 - radius, 1, -2 * radius, 0, radius)

CirclePoints(x0, y0, radius) ==
    CircleLoop(<< <<x0, y0 + radius>>, <<x0, y0 - radius>>,
                  <<x0 + radius, y0>>, <<x0 - radius, y0>> >>,
               x0, y0, 1 - radius, 1, -2 * radius, 0, radius)

Circle(b, x0, y0, radius, c) == Plot(b, CirclePoints(x0, y0, radius), c)

(***************************************************************************)
(* Rectangle and Char, which write bytes of buf directly.                  *)
(***************************************************************************)
\* for x := x0; x <= x1; x++ { buf[width*page + x] op= m }, for each of the
\* pages p0 .. p1 in turn.
PageWrites(p0, p1, x0, x1, m) ==
    LET w == x1 - x0 + 1
        n == IF p1 < p0 \/ w < 1 THEN 0 ELSE (p1 - p0 + 1) * w
    IN  [i \in 1 .. n |->
            <<width * (p0 + ((i - 1) \div w)) + x0 + ((i - 1) % w), m>>]

\* The mask of the top page row of Rectangle.
TopMask(y0) == Shl8(255, GoMod(y0, 8) - 1)

\* The mask of the bottom page row of Rectangle.
BottomMask(y1) == Shr8(255, 7 - GoMod(y1, 8))

\* The page rows the middle loop of Rectangle fills with a full mask: it
\* starts at the page of y0 and stops before the page of y1.
FullPages(y0, y1) == <<GoDiv(y0, 8), GoDiv(y1, 8) - 1>>

\* for y := y0; y <= y1; y++ { Line(x0, y, x1, y, c) }: the pixels plotted, row
\* after row.
RECURSIVE RowPoints(_, _, _, _)
RowPoints(x0, y, x1, y1) ==
    IF y > y1 THEN <<>>
    ELSE LinePoints(x0, y, x1, y) \o RowPoints(x0, y + 1, x1, y1)

\* A guard that overlooks boxes whose bottom is above their top.
BackwardsInXOnly(x0, y0, x1, y1) == x0 > x1

\* case x0 > x1 || y0 > y1: a backwards rectangle, which is ignored.
Backwards(x0, y0, x1, y1) == x0 > x1 \/ y0 > y1

Rectangle(b, x0, y0, x1, y1, c) ==
    CASE Backwards(x0, y0, x1, y1) -> [buf |-> b, fault |-> FALSE]
      [] ~Backwards(x0, y0, x1, y1) /\ (x0 = x1 \/ y0 = y1) ->
            [buf |-> Line(b, x0, y0, x1, y1, c), fault |-> FALSE]
      [] x0 < x1 /\ y0 < y1 /\ GoDiv(y0, 8) < GoDiv(y1, 8) ->
            Writes(b,
                   PageWrites(GoDiv(y0, 8), GoDiv(y0, 8), x0, x1, TopMask(y0))
                   \o PageWrites(FullPages(y0, y1)[1], FullPages(y0, y1)[2],
                                 x0, x1, 255)
                   \o PageWrites(GoDiv(y1, 8), GoDiv(y1, 8), x0, x1,
                                 BottomMask(y1)),
                   c)
      [] OTHER -> [buf |-> Plot(b, RowPoints(x0, y0, x1, y1), c), fault |-> FALSE]

\* The glyph table (font) is defined in a file of the package that is not
\* among the sources: 5 column bytes for each of the codes 0..127, indexed
\* by 5*r + i.  Any table of 640 bytes fits that description; this one has
\* columns with their top bit, their bottom bit, both and neither set.
font(k) == (k * 73 + 129) % 256

\* The columns of a glyph at x that the loops of Char visit:
\* i < 5 && x + i < width.
GlyphCols(x) == IF width - x >= 5 THEN 5 ELSE IF width - x < 0 THEN 0 ELSE width - x

\* The writes to the page row of y: each column shifted right by 8 - y%8.
LowerWrites(x, y, r) ==
    LET bufi == width * GoDiv(y, 8) + x
    IN  IF bufi < GoDiv(width * height, 8) /\ bufi >= 0
        THEN [i \in 1 .. GlyphCols(x) |->
                <<bufi + i - 1, Shr8(font(5 * r + i - 1), 8 - GoMod(y, 8))>>]
        ELSE <<>>

\* The writes to the page row above: each column shifted left by y%8.
UpperWrites(x, y, r) ==
    LET bufiup == width * GoDiv(y, 8) + x - width
    IN  IF bufiup < GoDiv(width * height, 8) /\ bufiup >= 0
        THEN [i \in 1 .. GlyphCols(x) |->
                <<bufiup + i - 1, Shl8(font(5 * r + i - 1), GoMod(y, 8))>>]
        ELSE <<>>

\* A check of the code that forgets its upper limit.
CharRejectsNoUpper(x, y, r) == x >= width \/ y >= height \/ r < 0

\* Whether Char returns -1 before it writes anything.
CharRejects(x, y, r) == x >= width \/ y >= height \/ r < 0 \/ r > 127

Char(b, x, y, c, r) ==
    IF CharRejects(x, y, r)
    THEN [buf |-> b, fault |-> FALSE, rc |-> -1]
    ELSE LET w == Writes(b, LowerWrites(x, y, r) \o UpperWrites(x, y, r), c)
         IN  [buf |-> w.buf, fault |-> w.fault, rc |-> 0]

(***************************************************************************)
(* The bus and the reset pin.  An external action is recorded as           *)
(* [kind, arg, data]; a call on a collaborator yields the actions it       *)
(* performed and the error it returned ("nil" for none).  Whether a        *)
(* collaborator's call fails is an input of the model.                     *)
(***************************************************************************)
Event(kind, arg, data) == [kind |-> kind, arg |-> arg, data |-> data]

Done(ev, e) == [io |-> ev, err |-> e]

\* i2c.Bus.WriteI2C(dc, data): package i2c is not among the sources; it is
\* the addressed bus write of the specification, write(prefix, payload),
\* which sends the payload as it is and may fail.
WriteI2C(dc, data, fails) ==
    Done(<<Event("WriteI2C", dc, data)>>, IF fails THEN "WriteI2C" ELSE "nil")

\* gpio.SetDirection(dir): a direction other than "in" and "out" is refused
\* before the pin is touched; otherwise one write to the pin's direction
\* file.
SetDirection(dir, fails) ==
    IF dir # "in" /\ dir # "out"
    THEN Done(<<>>, "Invalid direction: " \o dir)
    ELSE Done(<<Event("SetDirection:" \o dir, 0, <<>>)>>,
              IF fails THEN "SetDirection" ELSE "nil")

\* gpio.SetValue(value): one write to the pin's value file.
SetValue(value, fails) ==
    IF value # 0 /\ value # 1
    THEN Done(<<>>, "Invalid value: " \o ToString(value))
    ELSE Done(<<Event("SetValue", value, <<>>)>>,
              IF fails THEN (IF value = 0 THEN "SetValue(0)" ELSE "SetValue(1)")
              ELSE "nil")

\* gpio.Unexport(): the driver never opens the value file, so this is one
\* write to the unexport file.
Unexport(fails) ==
    Done(<<Event("Unexport", 0, <<>>)>>, IF fails THEN "Unexport" ELSE "nil")

\* time.Sleep(3*time.Millisecond)
Sleep(ms) == <<Event("Sleep", ms, <<>>)>>

CmdPrefix(n) == IF n = 1 THEN 128 ELSE 0

\* A framer that sends data with the prefixes of commands.
DataPrefixOfCmd(n) == IF n = 1 THEN 128 ELSE 0

DataPrefix(n) == IF n = 1 THEN 192 ELSE 64

WriteCmd(cmd, fails) ==
    IF iface = IFACE_I2C
    THEN WriteI2C(CmdPrefix(Len(cmd)), cmd, fails)
    ELSE Done(<<>>, "nil")

WriteData(data, fails) ==
    IF iface = IFACE_I2C
    THEN WriteI2C(DataPrefix(Len(data)), data, fails)
    ELSE Done(<<>>, "nil")

\* The configuration of an earlier revision of Setup, which does not set the
\* COM scan direction (VERT_MIRROR).
ConfigSequenceOld ==
    <<174, 64, 32, 0, 129, 207, 161, 166, 168, 63, 211, 0, 213, 240,
      217, 241, 218, 18, 219, 64, 141, 20, 175>>

\* The byte slice Setup passes to WriteCmd.
ConfigSequence ==
    <<DISP_OFF, 64, 32, 0, 129, 207, 161, 166, 168, 63, 211, 0, 200, 213, 240,
      217, 241, 218, 18, 219, 64, 141, 20, DISP_ON>>

\* Setup.  fl[i] = 1 when the i-th of its four collaborator calls
\* (SetDirection, SetValue(0), SetValue(1), the write of WriteCmd) fails if
\* it is made.  The result of WriteCmd is not assigned to err.
Setup(fl) ==
    LET d == SetDirection("out", fl[1] = 1)
        lo == SetValue(0, fl[2] = 1)
        hi == SetValue(1, fl[3] = 1)
        cfg == WriteCmd(ConfigSequence, fl[4] = 1)
    IN  IF d.err # "nil" THEN Done(d.io, d.err)
        ELSE IF lo.err # "nil" THEN Done(d.io \o lo.io, lo.err)
        ELSE IF hi.err # "nil"
             THEN Done(d.io \o lo.io \o Sleep(3) \o hi.io, hi.err)
        ELSE Done(d.io \o lo.io \o Sleep(3) \o hi.io \o cfg.io, hi.err)

\* Close.  Both results are dropped.
Close(failWrite, failUnexport) ==
    Done(WriteData(<<DISP_OFF>>, failWrite).io \o Unexport(failUnexport).io,
         "nil")

\* buf[i:i+32]: a slice expression panics when i+32 exceeds the capacity of
\* buf, which is the length make gave it.
SliceInRange(b, i) == i + ChunkLen <= BufLen(b)

Slice(b, i) == [k \in 1 .. ChunkLen |-> b[i + k - 1]]

\* A Draw that keeps sending after a failed write and reports the failure
\* at the end.
DrawNoAbort(b, failAt) ==
    LET n == BufLen(b) \div ChunkLen
    IN  IF iface = IFACE_I2C
        THEN [io |-> [j \in 1 .. n |->
                        Event("WriteI2C", DataPrefix(ChunkLen),
                              Slice(b, ChunkLen * (j - 1)))],
              err |-> IF failAt \in 0 .. (n - 1) THEN "WriteI2C" ELSE "nil",
              fault |-> BufLen(b) % ChunkLen # 0]
        ELSE [io |-> <<>>, err |-> "nil", fault |-> FALSE]

\* The loop of Draw from index i on; the failAt-th write of the call (from
\* 0) fails, none if failAt is -1.
RECURSIVE DrawLoop(_, _, _, _)
DrawLoop(b, i, failAt, ev) ==
    IF ~(i < BufLen(b)) THEN [io |-> ev, err |-> "nil", fault |-> FALSE]
    ELSE IF ~SliceInRange(b, i) THEN [io |-> ev, err |-> "nil", fault |-> TRUE]
    ELSE LET w == WriteData(Slice(b, i), failAt = i \div ChunkLen)
         IN  IF w.err # "nil"
             THEN [io |-> ev \o w.io, err |-> w.err, fault |-> FALSE]
             ELSE DrawLoop(b, i + ChunkLen, failAt, ev \o w.io)

Draw(b, failAt) ==
    IF iface = IFACE_I2C
    THEN DrawLoop(b, 0, failAt, <<>>)
    ELSE [io |-> <<>>, err |-> "nil", fault |-> FALSE]

(***************************************************************************)
(* The state after New, and the sets the calls draw their arguments from.  *)
(***************************************************************************)
XRange == (-Margin) .. (width - 1 + Margin)
YRange == (-Margin) .. (height - 1 + Margin)

\* The columns the calls are explored at: those outside the grid, the first
\* and the last of the grid, and one inside every 16.
XSample == {x \in XRange : x <= 0 \/ x >= width - 1 \/ x % 16 = 3}

\* The rows the multi-row calls are explored at: those outside the grid, the
\* last of the grid, and the first, fourth and last row of every page.
YSample == {y \in YRange : y < 0 \/ y >= height - 1 \/ y % 8 \in {0, 3, 7}}

NoCall == [op |-> "New", args |-> <<>>, data |-> <<>>]

\* New(rstpin, iface, addr, bus, w, h) without error: a zeroed buffer of
\* w*h/8 bytes.
New(w, h, ifc) ==
    /\ width = w
    /\ height = h
    /\ iface = ifc
    /\ buf = [i \in 0 .. ((w * h) \div 8 - 1) |-> 0]
    /\ prev = buf
    /\ call = NoCall
    /\ rc = 0
    /\ err = "nil"
    /\ io = <<>>
    /\ status = "open"
    /\ ndraw = 0

\* What every call leaves alone: the fields set once by New.
Fixed == UNCHANGED <<width, height, iface>>

\* The record of a finished call.
Returns(op, args, data, b, r, e, ev, st) ==
    /\ buf' = b
    /\ call' = [op |-> op, args |-> args, data |-> data]
    /\ rc' = r
    /\ err' = e
    /\ io' = ev
    /\ status' = st
    /\ Fixed

ClearCall ==
    /\ status = "open"
    /\ \E c \in Colors :
          /\ Returns("Clear", <<c>>, <<>>, Clear(buf, c), 0, "nil", <<>>, "open")
          /\ prev' = Clear(buf, c)
    /\ ndraw' = 0

PointCall ==
    /\ status = "open"
    /\ ndraw < MaxDraws
    /\ \E x \in XSample, y \in YRange, c \in Colors :
          Returns("Point", <<x, y, c>>, <<>>, Point(buf, x, y, c), 0, "nil",
                  <<>>, "open")
    /\ prev' = buf
    /\ ndraw' = ndraw + 1

\* A drawing call that may panic: the process ends where it did.
Drawn(op, args, r, rcv) ==
    /\ Returns(op, args, <<>>, r.buf, rcv, "nil", <<>>,
               IF r.fault THEN "panic" ELSE "open")
    /\ prev' = buf
    /\ ndraw' = ndraw + 1

LineCall ==
    /\ status = "open"
    /\ ndraw < MaxDraws
    /\ \E x0 \in XSample, y0 \in YSample, x1 \in XSample, y1 \in YSample,
          c \in Colors :
          Drawn("Line", <<x0, y0, x1, y1, c>>,
                [buf |-> Line(buf, x0, y0, x1, y1, c), fault |-> FALSE], 0)

\* The radii explored: negative, zero, and up to the width of the display.
Radii == (-Margin) .. 8

CircleCall ==
    /\ status = "open"
    /\ ndraw < MaxDraws
    /\ \E x0 \in XSample, y0 \in YSample, radius \in Radii, c \in Colors :
          Drawn("Circle", <<x0, y0, radius, c>>,
                [buf |-> Circle(buf, x0, y0, radius, c), fault |-> FALSE], 0)

RectangleCall ==
    /\ status = "open"
    /\ ndraw < MaxDraws
    /\ \E x0 \in XSample, y0 \in YSample, x1 \in XSample, y1 \in YSample,
          c \in Colors :
          Drawn("Rectangle", <<x0, y0, x1, y1, c>>,
                Rectangle(buf, x0, y0, x1, y1, c), 0)

\* The character codes explored: the first and the last of the table, one
\* inside it, and the nearest codes outside it.
Runes == {-1, 0, 65, 127, 128}

CharCall ==
    /\ status = "open"
    /\ ndraw < MaxDraws
    /\ \E x \in XSample, y \in YSample, c \in Colors, r \in Runes :
          LET res == Char(buf, x, y, c, r)
          IN  Drawn("Char", <<x, y, c, r>>, res, res.rc)

\* A call that leaves the framebuffer alone.
BusCall(op, args, data, r, st) ==
    /\ Returns(op, args, data, buf, 0, r.err, r.io, st)
    /\ prev' = buf
    /\ UNCHANGED ndraw

\* The payloads explored: of 0, 1, 2, 32 and 33 bytes, with two contents.
Payload(n, first) == [i \in 1 .. n |-> (first + i - 1) % 256]

Payloads == {Payload(n, f) : n \in {0, 1, 2, ChunkLen, ChunkLen + 1},
                             f \in {0, DISP_OFF}}

WriteCmdCall ==
    /\ status = "open"
    /\ \E cmd \in Payloads, fails \in BOOLEAN :
          BusCall("WriteCmd", <<IF fails THEN 1 ELSE 0>>, cmd,
                  WriteCmd(cmd, fails), "open")

WriteDataCall ==
    /\ status = "open"
    /\ \E data \in Payloads, fails \in BOOLEAN :
          BusCall("WriteData", <<IF fails THEN 1 ELSE 0>>, data,
                  WriteData(data, fails), "open")

DrawCall ==
    /\ status = "open"
    /\ \E failAt \in (-1) .. (BufLen(buf) \div ChunkLen) :
          LET res == Draw(buf, failAt)
          IN  BusCall("Draw", <<failAt>>, <<>>, res,
                      IF res.fault THEN "panic" ELSE "open")

SetupCall ==
    /\ status = "open"
    /\ \E fl \in [1 .. 4 -> {0, 1}] :
          BusCall("Setup", fl, <<>>, Setup(fl), "open")

CloseCall ==
    /\ status = "open"
    /\ \E fw \in BOOLEAN, fu \in BOOLEAN :
          BusCall("Close", <<IF fw THEN 1 ELSE 0, IF fu THEN 1 ELSE 0>>, <<>>,
                  Close(fw, fu), "closed")

(***************************************************************************)
(* Point alone, on small displays.                                         *)
(***************************************************************************)
PointDims == {<<8, 8>>, <<8, 16>>}

InitPoint == \E d \in PointDims : New(d[1], d[2], IFACE_I2C)

NextPoint == ClearCall \/ PointCall

SpecPoint == InitPoint /\ [][NextPoint]_vars

(***************************************************************************)
(* The drawing primitives, on displays of two and three page rows.         *)
(***************************************************************************)
RasterDims == {<<8, 16>>, <<8, 24>>}

InitRaster == \E d \in RasterDims : New(d[1], d[2], IFACE_I2C)

NextRaster == ClearCall \/ LineCall \/ CircleCall \/ RectangleCall \/ CharCall

SpecRaster == InitRaster /\ [][NextRaster]_vars

(***************************************************************************)
(* Char alone, on a display of two page rows.                              *)
(***************************************************************************)
GlyphDims == {<<8, 16>>}

InitGlyph == \E d \in GlyphDims : New(d[1], d[2], IFACE_I2C)

NextGlyph == ClearCall \/ CharCall

SpecGlyph == InitGlyph /\ [][NextGlyph]_vars

(***************************************************************************)
(* Draw, on displays of 8, 32, 48 and 64 bytes, with and without a bus.    *)
(***************************************************************************)
DrawDims == {<<8, 8>>, <<32, 8>>, <<16, 24>>, <<64, 8>>}

Ifaces == {IFACE_SPI, IFACE_I2C}

InitDraw == \E d \in DrawDims, ifc \in Ifaces : New(d[1], d[2], ifc)

NextDraw == ClearCall \/ PointCall \/ DrawCall

SpecDraw == InitDraw /\ [][NextDraw]_vars

(***************************************************************************)
(* The session: bring-up, raw frames, teardown.                            *)
(***************************************************************************)
SessionDims == {<<8, 8>>, <<32, 8>>}

InitSession == \E d \in SessionDims, ifc \in Ifaces : New(d[1], d[2], ifc)

NextSession == WriteCmdCall \/ WriteDataCall \/ SetupCall \/ CloseCall

SpecSession == InitSession /\ [][NextSession]_vars

(***************************************************************************)
(* Line alone, on displays of one and two page rows.                       *)
(***************************************************************************)
LineDims == {<<8, 8>>, <<8, 16>>}

InitLine == \E d \in LineDims : New(d[1], d[2], IFACE_I2C)

\* Each line is drawn on a buffer just created or cleared.
NextLine == ClearCall \/ (ndraw = 0 /\ LineCall)

SpecLine == InitLine /\ [][NextLine]_vars

(***************************************************************************)
(* Rectangle alone, on a display of two page rows.                         *)
(***************************************************************************)
RectDims == {<<8, 16>>}

InitRect == \E d \in RectDims : New(d[1], d[2], IFACE_I2C)

\* Each rectangle is drawn on a buffer just created or cleared.
NextRect == ClearCall \/ (ndraw = 0 /\ RectangleCall)

SpecRect == InitRect /\ [][NextRect]_vars

(***************************************************************************)
(* Circle alone, on displays of one and two page rows.                     *)
(***************************************************************************)
CircleDims == {<<8, 8>>, <<8, 16>>}

InitCircle == \E d \in CircleDims : New(d[1], d[2], IFACE_I2C)

\* Each circle is drawn on a buffer just created or cleared.
NextCircle == ClearCall \/ (ndraw = 0 /\ CircleCall)

SpecCircle == InitCircle /\ [][NextCircle]_vars

(***************************************************************************)
(* The whole driver, on the smallest display.                              *)
(***************************************************************************)
WholeDims == {<<8, 8>>}

Init == \E d \in WholeDims, ifc \in Ifaces : New(d[1], d[2], ifc)

Next ==
    \/ ClearCall \/ PointCall \/ LineCall \/ CircleCall \/ RectangleCall
    \/ CharCall \/ DrawCall \/ WriteCmdCall \/ WriteDataCall \/ SetupCall
    \/ CloseCall

Spec == Init /\ [][Next]_vars

(***************************************************************************)
(* C1                                                                      *)
(***************************************************************************)
\* C1: Point(x, y, color) changes at most one bit of the framebuffer.  For
\* (x, y) in the grid, bit y % 8 of byte W*(y/8) + x becomes the colour (1
\* for set, 0 for clear) and every other bit of every byte keeps its value;
\* for (x, y) outside the grid, negative coordinates included, the whole
\* framebuffer is unchanged.
C1_PointOneBit ==
    call.op = "Point" =>
        LET x == call.args[1]
            y == call.args[2]
            c == call.args[3]
        IN  /\ status = "open"
            /\ DOMAIN buf = DOMAIN prev
            /\ ~InGrid(x, y) => buf = prev
            /\ InGrid(x, y) =>
                  LET e == width * (y \div 8) + x
                      k == y % 8
                  IN  /\ e \in DOMAIN buf
                      /\ Bit(buf[e], k) = (IF c = White THEN 1 ELSE 0)
                      /\ \A i \in DOMAIN buf, j \in 0 .. 7 :
                            (i # e \/ j # k) => Bit(buf[i], j) = Bit(prev[i], j)

\* A pixel is cleared in a byte whose other seven bits are set and stay set.
C1_Witness ==
    /\ call.op = "Point"
    /\ InGrid(call.args[1], call.args[2])
    /\ call.args[3] = Black
    /\ call.args[2] % 8 = 3
    /\ prev[width * (call.args[2] \div 8) + call.args[1]] = 255
    /\ buf[width * (call.args[2] \div 8) + call.args[1]] = 247

(***************************************************************************)
(* The framebuffer as pixels: bit y % 8 of byte W*(y/8) + x.               *)
(***************************************************************************)
Pixel(b, x, y) == Bit(b[width * (y \div 8) + x], y % 8)

ColorBit(c) == IF c = White THEN 1 ELSE 0

Grid == (0 .. width - 1) \X (0 .. height - 1)

\* The pixels whose value the last call changed.
Changed == {p \in Grid : Pixel(buf, p[1], p[2]) # Pixel(prev, p[1], p[2])}

(***************************************************************************)
(* C2                                                                      *)
(***************************************************************************)
\* C2: for every box with x0 <= x1 and y0 <= y1 inside the grid, the
\* framebuffer after Rectangle(x0, y0, x1, y1, color) is the framebuffer
\* after Line(x0, y, x1, y, color) for every row y of y0..y1: exactly the
\* pixels of the box take the colour, and no other pixel changes.
C2_RectangleIsRowsOfLines ==
    (/\ call.op = "Rectangle"
     /\ call.args[1] <= call.args[3]
     /\ call.args[2] <= call.args[4]
     /\ InGrid(call.args[1], call.args[2])
     /\ InGrid(call.args[3], call.args[4]))
    => LET x0 == call.args[1]
           y0 == call.args[2]
           x1 == call.args[3]
           y1 == call.args[4]
           c == call.args[5]
       IN  /\ status = "open"
           /\ buf = Plot(prev, RowPoints(x0, y0, x1, y1), c)
           /\ \A p \in Grid :
                 Pixel(buf, p[1], p[2]) =
                    IF x0 <= p[1] /\ p[1] <= x1 /\ y0 <= p[2] /\ p[2] <= y1
                    THEN ColorBit(c)
                    ELSE Pixel(prev, p[1], p[2])

(***************************************************************************)
(* C3                                                                      *)
(***************************************************************************)
\* The columns and the page rows the arguments of a call address.  A pixel
\* of the grid that lies in none of them can only be reached by an index
\* that wrapped around.
Addressed(op, a, x, y) ==
    CASE op = "Line" ->
            \E i \in 1 .. Len(LinePoints(a[1], a[2], a[3], a[4])) :
                LinePoints(a[1], a[2], a[3], a[4])[i] = <<x, y>>
      [] op = "Circle" ->
            \E i \in 1 .. Len(CirclePoints(a[1], a[2], a[3])) :
                CirclePoints(a[1], a[2], a[3])[i] = <<x, y>>
      [] op = "Rectangle" ->
            /\ a[1] <= x /\ x <= a[3]
            /\ GoDiv(a[2], 8) <= y \div 8 /\ y \div 8 <= GoDiv(a[4], 8)
      [] op = "Char" ->
            /\ a[1] <= x /\ x <= a[1] + 4
            /\ GoDiv(a[2], 8) - 1 <= y \div 8 /\ y \div 8 <= GoDiv(a[2], 8) + 1
      [] OTHER -> TRUE

\* C3: for any integer arguments, negative and beyond the grid included,
\* Line, Circle, Rectangle and Char never index the framebuffer outside
\* [0, W*H/8) (no fault), and a coordinate outside the grid is a no-op: no
\* write lands in another column or page row through index wrap-around.
C3_NoFaultNoWrapAround ==
    call.op \in {"Line", "Circle", "Rectangle", "Char"} =>
        /\ status # "panic"
        /\ \A p \in Changed : Addressed(call.op, call.args, p[1], p[2])

(***************************************************************************)
(* C6, C7, C8                                                              *)
(***************************************************************************)
\* The 5x8 cell of code r is rendered with its top-left pixel at (x, top):
\* row j of column i of the glyph is bit j of font(5r + i); every set bit of
\* the glyph takes the colour, and every other pixel keeps its value.
CellRenderedAt(x, top, c, r) ==
    /\ top >= 0
    /\ top + 7 < height
    /\ \A p \in Grid :
          Pixel(buf, p[1], p[2]) =
             IF /\ x <= p[1] /\ p[1] <= x + 4
                /\ top <= p[2] /\ p[2] <= top + 7
                /\ Bit(font(5 * r + (p[1] - x)), p[2] - top) = 1
             THEN ColorBit(c)
             ELSE Pixel(prev, p[1], p[2])

\* C6: for a code in [0,127] and an anchor in the grid with y a multiple of
\* 8, Char(x, y, set, code) ORs the 5 column bytes of the glyph, unshifted,
\* into bytes W*(y/8)+x .. W*(y/8)+x+4 (columns clipped at W), so that
\* pixel rows y..y+7 carry the pattern, and changes no other byte.
C6_AlignedGlyphAtAnchor ==
    (/\ call.op = "Char"
     /\ call.args[4] \in 0 .. 127
     /\ InGrid(call.args[1], call.args[2])
     /\ call.args[2] % 8 = 0
     /\ call.args[3] = White)
    => LET x == call.args[1]
           y == call.args[2]
           r == call.args[4]
           bufi == width * (y \div 8) + x
       IN  /\ status = "open"
           /\ \A e \in DOMAIN buf :
                 buf[e] = IF e >= bufi /\ e < bufi + 5 /\ x + (e - bufi) < width
                          THEN Or8(prev[e], font(5 * r + (e - bufi)))
                          ELSE prev[e]
           /\ CellRenderedAt(x, y, White, r)

\* C7: for a code in [0,127] and an anchor in the grid with k = y % 8 # 0,
\* Char writes to two adjacent page rows, one receiving each column shifted
\* right by 8-k and the other shifted left by k; the two parts together are
\* the 8 rows of the glyph, contiguous and in order, and every bit outside
\* the glyph cell keeps its value.  The claim does not say which of the two
\* page rows holds the top of the cell: either placement satisfies it.
C7_SplitGlyphIsWhole ==
    (/\ call.op = "Char"
     /\ call.args[4] \in 0 .. 127
     /\ InGrid(call.args[1], call.args[2])
     /\ call.args[2] % 8 # 0)
    => /\ status = "open"
       /\ \/ CellRenderedAt(call.args[1], call.args[2], call.args[3], call.args[4])
          \/ CellRenderedAt(call.args[1], call.args[2] - 8, call.args[3], call.args[4])

\* C8: Char called with a code outside [0,127], or with x >= W or y >= H,
\* returns -1 and leaves the framebuffer unchanged; every call that is not
\* rejected returns 0.
C8_CharRejectsInvalid ==
    call.op = "Char" =>
        LET x == call.args[1]
            y == call.args[2]
            r == call.args[4]
            invalid == r < 0 \/ r > 127 \/ x >= width \/ y >= height
        IN  /\ status = "open"
            /\ invalid => (rc = -1 /\ buf = prev)
            /\ ~invalid => rc = 0

\* A call with an anchor in the grid and the code 128 is rejected, on a
\* buffer it would otherwise have changed.
C8_Witness ==
    /\ call.op = "Char"
    /\ InGrid(call.args[1], call.args[2])
    /\ call.args[2] = 8
    /\ call.args[3] = Black
    /\ call.args[4] = 128
    /\ prev = Clear(prev, White)
    /\ rc = -1
    /\ buf = prev

(***************************************************************************)
(* C4, C5                                                                  *)
(***************************************************************************)
\* C4: on a bus-based display whose framebuffer holds N bytes, a Draw with
\* no transport error issues exactly N/32 transport writes, each a data
\* frame of exactly 32 bytes with the multi-byte data prefix 0x40, in
\* ascending buffer order, with no command frame among them; the payloads,
\* one after the other, are the framebuffer as the earlier drawing calls
\* left it.
C4_DrawSendsWholeBuffer ==
    (call.op = "Draw" /\ iface = IFACE_I2C /\ call.args[1] = -1)
    => /\ status = "open"
       /\ err = "nil"
       /\ buf = prev
       /\ Len(io) * 32 = BufLen(buf)
       /\ \A j \in 1 .. Len(io) :
             /\ io[j].kind = "WriteI2C"
             /\ io[j].arg = 64
             /\ Len(io[j].data) = 32
             /\ \A k \in 1 .. 32 : io[j].data[k] = buf[32 * (j - 1) + k - 1]

\* C5: on a bus-based display, each call of WriteCmd or WriteData makes
\* exactly one transport write, passing the payload unchanged, with a prefix
\* that depends only on the operation and on whether the payload is 1 byte
\* long: 0x80 for a 1-byte command, 0x00 for any other command, 0xC0 for 1
\* data byte, 0x40 for any other data; the four prefixes are distinct.
C5_OneFramePerCall ==
    /\ Cardinality({CmdPrefix(1), CmdPrefix(2), DataPrefix(1), DataPrefix(2)}) = 4
    /\ (call.op \in {"WriteCmd", "WriteData"} /\ iface = IFACE_I2C)
       => /\ status = "open"
          /\ buf = prev
          /\ Len(io) = 1
          /\ io[1].kind = "WriteI2C"
          /\ io[1].data = call.data
          /\ io[1].arg = IF call.op = "WriteCmd"
                         THEN (IF Len(call.data) = 1 THEN 128 ELSE 0)
                         ELSE (IF Len(call.data) = 1 THEN 192 ELSE 64)

\* A payload of 33 bytes goes out as data in one write, and so does a
\* payload of 1 byte, with another prefix.
C5_Witness ==
    /\ call.op = "WriteData"
    /\ iface = IFACE_I2C
    /\ Len(call.data) \in {1, 33}
    /\ Len(io) = 1
    /\ io[1].arg = (IF Len(call.data) = 1 THEN 192 ELSE 64)
    /\ io[1].data = call.data

(***************************************************************************)
(* C9, C10                                                                 *)
(***************************************************************************)
\* The external actions of a Setup in which nothing fails, as the claim
\* lists them: reset pin direction to output, reset low, the 3 ms settle
\* time, reset high, then one transport write that is a multi-byte command
\* frame (prefix 0x00) carrying the whole configuration sequence, from
\* display-off (0xAE) to display-on (0xAF); no data frame and no second
\* command frame.
SetupActionsInOrder ==
    /\ status = "open"
    /\ err = "nil"
    /\ buf = prev
    /\ Len(io) = 5
    /\ io[1] = [kind |-> "SetDirection:out", arg |-> 0, data |-> <<>>]
    /\ io[2] = [kind |-> "SetValue", arg |-> 0, data |-> <<>>]
    /\ io[3] = [kind |-> "Sleep", arg |-> 3, data |-> <<>>]
    /\ io[4] = [kind |-> "SetValue", arg |-> 1, data |-> <<>>]
    /\ io[5].kind = "WriteI2C"
    /\ io[5].arg = 0
    /\ io[5].data = <<174, 64, 32, 0, 129, 207, 161, 166, 168, 63, 211, 0,
                      200, 213, 240, 217, 241, 218, 18, 219, 64, 141, 20,
                      175>>

\* C9, as stated: a Setup in which no call fails performs these external
\* actions in exactly this order, ending with exactly one transport write,
\* on any display.
C9_SetupOrderAnyInterface ==
    (call.op = "Setup" /\ \A i \in 1 .. 4 : call.args[i] = 0)
    => SetupActionsInOrder

\* C9, amended: on a bus-based display (iface = IFACE_I2C), a Setup in which
\* no call fails performs these external actions in exactly this order,
\* ending with exactly one transport write.  On a display opened with
\* another interface kind the reset is done and nothing is written.
C9_SetupOrder ==
    (call.op = "Setup" /\ iface = IFACE_I2C /\ \A i \in 1 .. 4 : call.args[i] = 0)
    => SetupActionsInOrder

\* A Setup without failure on a bus-based display has sent its one frame.
C9_Witness ==
    /\ call.op = "Setup"
    /\ iface = IFACE_I2C
    /\ \A i \in 1 .. 4 : call.args[i] = 0
    /\ Len(io) = 5
    /\ io[5].kind = "WriteI2C"
    /\ io[5].data[1] = 174
    /\ io[5].data[Len(io[5].data)] = 175

\* The four collaborator calls of Setup, in order: the error each returns,
\* and how many external actions Setup has performed once it is made.
SetupErr(i) ==
    CASE i = 1 -> "SetDirection"
      [] i = 2 -> "SetValue(0)"
      [] i = 3 -> "SetValue(1)"
      [] i = 4 -> "WriteI2C"

SetupActions(i) == IF i <= 2 THEN i ELSE i + 1

\* C10: Setup returns an error whenever one of its underlying calls fails:
\* the error of the first failing call among set-direction, reset-low,
\* reset-high and the configuration write, and no later step is performed
\* after that failure.  In particular a transport failure of the
\* configuration write makes Setup fail.
C10_SetupPropagatesFirstError ==
    (/\ call.op = "Setup"
     /\ iface = IFACE_I2C
     /\ \E i \in 1 .. 4 : call.args[i] = 1)
    => LET first == CHOOSE i \in 1 .. 4 :
                       /\ call.args[i] = 1
                       /\ \A j \in 1 .. (i - 1) : call.args[j] = 0
       IN  /\ err = SetupErr(first)
           /\ Len(io) = SetupActions(first)

(***************************************************************************)
(* C11                                                                     *)
(***************************************************************************)
\* C11: on a bus-based display, Close transmits exactly one frame, a
\* single-byte command frame (prefix 0x80) carrying the power-off opcode
\* 0xAE, and releases (unexports) the reset pin only after that
\* transmission; it sends no data frame.
C11_CloseSendsPowerOffCommand ==
    (call.op = "Close" /\ iface = IFACE_I2C)
    => /\ status = "closed"
       /\ buf = prev
       /\ Len(io) = 2
       /\ io[1] = [kind |-> "WriteI2C", arg |-> CmdPrefix(1), data |-> <<DISP_OFF>>]
       /\ io[2] = [kind |-> "Unexport", arg |-> 0, data |-> <<>>]

(***************************************************************************)
(* C12                                                                     *)
(***************************************************************************)
\* C12: if the transport write of chunk i fails during Draw, Draw returns
\* that error, the chunks 0..i are the only ones transmitted, in order,
\* and no chunk after i is; whether it succeeds or fails, Draw never
\* modifies the framebuffer.
C12_DrawAbortsOnFirstError ==
    call.op = "Draw" =>
        /\ buf = prev
        /\ \A i \in 0 .. (BufLen(buf) \div ChunkLen) :
              (/\ iface = IFACE_I2C
               /\ call.args[1] = i
               /\ ChunkLen * (i + 1) <= BufLen(buf))
              => /\ status = "open"
                 /\ err = "WriteI2C"
                 /\ Len(io) = i + 1
                 /\ \A j \in 1 .. (i + 1) :
                       /\ io[j].kind = "WriteI2C"
                       /\ \A k \in 1 .. ChunkLen :
                             io[j].data[k] = prev[ChunkLen * (j - 1) + k - 1]

\* The second of two chunks fails, on a buffer that holds a pixel.
C12_Witness ==
    /\ call.op = "Draw"
    /\ iface = IFACE_I2C
    /\ BufLen(buf) = 2 * ChunkLen
    /\ call.args[1] = 1
    /\ err = "WriteI2C"
    /\ Len(io) = 2
    /\ \E e \in DOMAIN buf : buf[e] # 0
    /\ buf = prev

(***************************************************************************)
(* C13                                                                     *)
(***************************************************************************)
Min(a, b) == IF a < b THEN a ELSE b

Max(a, b) == IF a > b THEN a ELSE b

\* (x, y) lies in the bounding box of (x0, y0) and (x1, y1).
InBox(x0, y0, x1, y1, x, y) ==
    /\ Min(x0, x1) <= x /\ x <= Max(x0, x1)
    /\ Min(y0, y1) <= y /\ y <= Max(y0, y1)

\* C13: for every pair of endpoints, Line(x0, y0, x1, y1, color) terminates
\* (after at most dx + dy + 1 pixels), plots both endpoints, and plots only
\* pixels inside the bounding box of the two endpoints; when the endpoints
\* coincide it plots exactly that one pixel, and when y0 = y1 or x0 = x1 it
\* plots exactly the pixels of the segment between them, in either
\* direction.  In the framebuffer: an endpoint in the grid has the colour,
\* no pixel outside the box changes, and a horizontal or vertical line
\* colours the pixels of its segment and leaves every other pixel alone.
C13_LineWithinBox ==
    call.op = "Line" =>
        LET x0 == call.args[1]
            y0 == call.args[2]
            x1 == call.args[3]
            y1 == call.args[4]
            c == call.args[5]
            pts == LinePoints(x0, y0, x1, y1)
            plotted == {pts[i] : i \in 1 .. Len(pts)}
            box == (Min(x0, x1) .. Max(x0, x1)) \X (Min(y0, y1) .. Max(y0, y1))
        IN  /\ status = "open"
            /\ Len(pts) <= Abs(x1 - x0) + Abs(y1 - y0) + 1
            /\ <<x0, y0>> \in plotted
            /\ <<x1, y1>> \in plotted
            /\ plotted \subseteq box
            /\ (x0 = x1 /\ y0 = y1) => pts = << <<x0, y0>> >>
            /\ (x0 = x1 \/ y0 = y1) => plotted = box
            /\ InGrid(x0, y0) => Pixel(buf, x0, y0) = ColorBit(c)
            /\ InGrid(x1, y1) => Pixel(buf, x1, y1) = ColorBit(c)
            /\ \A p \in Changed : InBox(x0, y0, x1, y1, p[1], p[2])
            /\ (x0 = x1 \/ y0 = y1) =>
                  \A p \in Grid :
                     Pixel(buf, p[1], p[2]) =
                        IF InBox(x0, y0, x1, y1, p[1], p[2])
                        THEN ColorBit(c)
                        ELSE Pixel(prev, p[1], p[2])

\* A slanted line drawn from right to left and from bottom to top, which
\* starts outside the grid, has coloured its far endpoint and a pixel
\* between the two.
C13_Witness ==
    /\ call.op = "Line"
    /\ call.args[1] > call.args[3] + 1
    /\ call.args[2] > call.args[4] + 1
    /\ ~InGrid(call.args[1], call.args[2])
    /\ InGrid(call.args[3], call.args[4])
    /\ call.args[5] = White
    /\ Pixel(buf, call.args[3], call.args[4]) = 1
    /\ Pixel(prev, call.args[3], call.args[4]) = 0
    /\ Cardinality(Changed) > 2

(***************************************************************************)
(* C14                                                                     *)
(***************************************************************************)
\* C14: Rectangle(x0, y0, x1, y1, color) with x0 > x1 or y0 > y1 leaves the
\* whole framebuffer unchanged, for either colour and whatever the buffer
\* held, and does not fault.
C14_BackwardsRectangleIgnored ==
    (/\ call.op = "Rectangle"
     /\ (call.args[1] > call.args[3] \/ call.args[2] > call.args[4]))
    => /\ status = "open"
       /\ buf = prev

\* A box given bottom-up in one column of the grid, in the colour the
\* buffer does not have, has drawn nothing.
C14_Witness ==
    /\ call.op = "Rectangle"
    /\ call.args[1] = call.args[3]
    /\ call.args[2] > call.args[4]
    /\ InGrid(call.args[1], call.args[2])
    /\ InGrid(call.args[3], call.args[4])
    /\ call.args[5] = Black
    /\ prev = Clear(prev, White)
    /\ buf = prev
    /\ status = "open"

(***************************************************************************)
(* C15                                                                     *)
(***************************************************************************)
\* The offset (a, b) lies on the outline of radius r, not inside the disk.
OnOutline(r, a, b) ==
    /\ (r - 1) * (r - 1) < a * a + b * b
    /\ a * a + b * b < (r + 1) * (r + 1)

\* C15: for every centre and every radius r >= 1, Circle(x0, y0, r, color)
\* terminates (after at most r turns of its loop), and the set of offsets
\* (a, b) it plots relative to the centre contains the four extrema (r,0),
\* (-r,0), (0,r), (0,-r), is closed under the 8 octant reflections (sign
\* change of a, sign change of b, swap of a and b), and is an outline, not
\* a disk: (r-1)^2 < a^2 + b^2 < (r+1)^2 for every plotted offset.  In the
\* framebuffer, the pixels of the grid at the plotted offsets have the
\* colour and every other pixel, the centre included, keeps its value.
C15_CircleIsSymmetricOutline ==
    (call.op = "Circle" /\ call.args[3] >= 1)
    => LET x0 == call.args[1]
           y0 == call.args[2]
           r == call.args[3]
           c == call.args[4]
           pts == CirclePoints(x0, y0, r)
           off == {<<pts[i][1] - x0, pts[i][2] - y0>> : i \in 1 .. Len(pts)}
       IN  /\ status = "open"
           /\ Len(pts) <= 4 + 8 * r
           /\ {<<r, 0>>, <<-r, 0>>, <<0, r>>, <<0, -r>>} \subseteq off
           /\ \A o \in off :
                 /\ <<-o[1], o[2]>> \in off
                 /\ <<o[1], -o[2]>> \in off
                 /\ <<o[2], o[1]>> \in off
                 /\ OnOutline(r, o[1], o[2])
           /\ \A p \in Grid :
                 Pixel(buf, p[1], p[2]) =
                    IF <<p[1] - x0, p[2] - y0>> \in off
                    THEN ColorBit(c)
                    ELSE Pixel(prev, p[1], p[2])
           /\ \A p \in Changed : OnOutline(r, p[1] - x0, p[2] - y0)

\* A circle of radius 3 around a pixel of the grid has coloured its
\* rightmost pixel and the pixel at offset (2, 2), and not its centre.
C15_Witness ==
    /\ call.op = "Circle"
    /\ call.args[3] = 3
    /\ call.args[4] = White
    /\ InGrid(call.args[1], call.args[2])
    /\ InGrid(call.args[1] + 3, call.args[2])
    /\ InGrid(call.args[1] + 2, call.args[2] + 2)
    /\ prev = Clear(prev, Black)
    /\ Pixel(buf, call.args[1] + 3, call.args[2]) = 1
    /\ Pixel(buf, call.args[1] + 2, call.args[2] + 2) = 1
    /\ Pixel(buf, call.args[1], call.args[2]) = 0

(***************************************************************************)
(* C16                                                                     *)
(***************************************************************************)
\* The number of payload bytes of a sequence of transport writes.
RECURSIVE Sent(_)
Sent(ev) == IF ev = <<>> THEN 0 ELSE Len(ev[1].data) + Sent(Tail(ev))

\* C16: for every bus-based display created with W and H multiples of 8,
\* those whose buffer holds fewer than 32 bytes or a number of bytes that
\* is not a multiple of 32 included, a Draw whose writes succeed takes no
\* chunk that extends past the end of the framebuffer, completes without a
\* fault, and transmits exactly W*H/8 bytes in total.
C16_DrawStaysInsideBuffer ==
    (/\ call.op = "Draw"
     /\ iface = IFACE_I2C
     /\ call.args[1] = -1
     /\ width % 8 = 0
     /\ height % 8 = 0)
    => /\ status = "open"
       /\ err = "nil"
       /\ Sent(io) = (width * height) \div 8
       /\ \A j \in 1 .. Len(io) :
             ChunkLen * (j - 1) + Len(io[j].data) <= BufLen(buf)

====
